---- MODULE Spec2Model ----
(***************************************************************************)
(* The three YAMNet conversion scripts (convert_yamnet.py,                 *)
(* extract_weights.py, reconvert_to_tfjs.py) as one state machine over a   *)
(* shared working directory.  A run of a script is a sequence of steps,    *)
(* one per statement group of the source; every call into the operating    *)
(* system or into TensorFlow either returns or raises, chosen by the       *)
(* environment.  Program positions are named after the source line of the  *)
(* call they execute (cy33 = convert_yamnet.py line 33).                   *)
(***************************************************************************)
EXTENDS Integers, Sequences, FiniteSets, TLC

\* Number of script runs explored from the empty working directory.
MaxRuns == 4
\* Longest variable list the loaded hub model reports.
MaxVars == 2

VARIABLES
    script,        \* the script of the current (or last) run
    pc,            \* position inside the run, "idle" between runs
    runs,          \* number of runs started so far
    dirs,          \* directories that exist (normalised paths)
    madeBy,        \* which os.makedirs call of which run created which directory
    savedModel,    \* directories holding a loadable SavedModel
    tfjsOut,       \* directories holding converter output
    desc,          \* the descriptor file weight_specs.json
    out,           \* lines printed by the current run
    steps,         \* steps executed by the current run, in order
    raisedAt,      \* position of the call that raised in this run, or "none"
    exit,          \* how the run ended as seen by the caller of the script
    variables,     \* yamnet_model.variables of extract_weights.py
    weight_specs,  \* the list built by extract_weight_specs
    command,       \* the command list of reconvert_to_tfjs
    sysStatus,     \* value returned by os.system, -1 before the call
    convSaved,     \* history: some convert_yamnet.py run completed its save
    descAtStart    \* history: the descriptor file as the current run found it

fsVars  == <<dirs, madeBy, savedModel, tfjsOut, desc>>
vars    == <<script, pc, runs, dirs, madeBy, savedModel, tfjsOut, desc, out, steps,
             raisedAt, exit, variables, weight_specs, command, sysStatus,
             convSaved, descAtStart>>

----------------------------------------------------------------------------
\* Paths are sequences of components; "./a/b" is <<".", "a", "b">>.

base_dir         == <<"yamnet_conversion">>
Join(p, c)       == Append(p, c)
CY_TF            == Join(base_dir, "yamnet_tf")
CY_TFJS          == Join(base_dir, "yamnet_tfjs")
SAVED_MODEL_PATH == <<".", "yamnet_conversion", "yamnet_tf">>
TFJS_OUTPUT_PATH == <<".", "yamnet_conversion", "yamnet_tfjs_reconverted">>
OUTPUT_JSON_PATH == <<".", "yamnet_conversion", "yamnet_tf", "weight_specs.json">>
MODEL_URL        == <<"https://tfhub.dev/google/yamnet/1">>

\* What the file system does with a path: "." components name no directory.
Norm(p)          == SelectSeq(p, LAMBDA c : c # ".")
DirName(p)       == SubSeq(p, 1, Len(p) - 1)
PrefixesUpTo(p, k) == { SubSeq(p, 1, j) : j \in 1..k }
Prefixes(p)      == PrefixesUpTo(p, Len(p))

----------------------------------------------------------------------------
\* Messages printed by the scripts (their fixed prefixes).

MsgDownloading  == "Downloading YAMNet model..."
MsgCreating     == "Creating wrapped model..."
MsgSaving       == "Saving model in SavedModel format..."
MsgLoading      == "Loading SavedModel and inspecting signatures..."
MsgSignatures   == "Signatures: "
MsgConverting   == "Converting to TFJS format..."
MsgComplete     == "Conversion complete! Model is in the yamnet_conversion/yamnet_tfjs directory"
MsgWeightsSaved == "Weight specs saved to: "
MsgErrExtract   == "Error during extraction: "
MsgRunning      == "Running command: "
MsgReconverted  == "TFJS model (reconverted) saved to: "
MsgErrReconvert == "Error during reconversion: "

----------------------------------------------------------------------------
\* Variables of the hub model.  A shape is a TensorShape (known rank with
\* dims, or unknown rank); a dtype is a DType enum value.

VarSet ==
    { [name |-> "kernel:0", shape |-> [known |-> TRUE,  dims |-> <<1, 2>>], dtype |-> "DT_FLOAT"],
      [name |-> "bias:0",   shape |-> [known |-> TRUE,  dims |-> <<>>],     dtype |-> "DT_INT32"],
      [name |-> "step:0",   shape |-> [known |-> FALSE, dims |-> <<>>],     dtype |-> "DT_INT32"] }

VarSeqs == UNION { [1..n -> VarSet] : n \in 0..MaxVars }

\* variable.dtype.name
DTypeName(d) == CASE d = "DT_FLOAT" -> "float32"
                  [] d = "DT_INT32" -> "int32"
                  [] OTHER        -> "unknown"

\* variable.shape.as_list() raises ValueError on a shape of unknown rank.
AsListRaises(shape) == ~shape.known
AsList(shape)       == shape.dims

\* The dict appended for one variable.
SpecOf(v) == [name |-> v.name, shape |-> AsList(v.shape), dtype |-> DTypeName(v.dtype)]

----------------------------------------------------------------------------
NoFile    == [exists |-> FALSE, data |-> <<>>, valid |-> FALSE]
NoCommand == [prog |-> "", flags |-> <<>>, input |-> <<>>, output |-> <<>>]
\* os.system results: 0, exit status 1 (256), command not found (32512).
Statuses  == {0, 256, 32512}

Entry(at, op, args, r) == [at |-> at, op |-> op, args |-> args, raised |-> r]

Init ==
    /\ script = "none" /\ pc = "idle" /\ runs = 0
    /\ dirs = {} /\ madeBy = {} /\ savedModel = {} /\ tfjsOut = {}
    /\ desc = NoFile
    /\ out = <<>> /\ steps = <<>> /\ raisedAt = "none" /\ exit = "none"
    /\ variables = <<>> /\ weight_specs = <<>>
    /\ command = NoCommand /\ sysStatus = -1
    /\ convSaved = FALSE /\ descAtStart = NoFile

\* Starting a script: a fresh interpreter, the same working directory.
StartRun(s, first) ==
    /\ pc = "idle" /\ runs < MaxRuns
    /\ runs' = runs + 1 /\ script' = s /\ pc' = first
    /\ out' = <<>> /\ steps' = <<>> /\ raisedAt' = "none" /\ exit' = "running"
    /\ variables' = <<>> /\ weight_specs' = <<>>
    /\ command' = NoCommand /\ sysStatus' = -1
    /\ descAtStart' = desc
    /\ UNCHANGED <<fsVars, convSaved>>

RunConvertYamnet  == StartRun("convert_yamnet", "cy8")
RunExtractWeights == StartRun("extract_weights", "ew17")
RunReconvert      == StartRun("reconvert_to_tfjs", "rc38")

\* Variant of makedirs: exist_ok left at its default False, so an existing
\* directory raises FileExistsError.
makedirs_no_exist_ok(at, path, next) ==
    /\ pc = at
    /\ \E ok \in BOOLEAN :
        /\ (Norm(path) \in dirs => ~ok)
        /\ \E k \in 0..Len(Norm(path)) :
            /\ (ok <=> k = Len(Norm(path)))
            /\ (~ok => k < Len(Norm(path)))
            /\ dirs' = dirs \cup (IF ok THEN PrefixesUpTo(Norm(path), k) ELSE {})
            /\ madeBy' = madeBy \cup
                 { [dir |-> d, script |-> script, run |-> runs] :
                      d \in (IF ok THEN PrefixesUpTo(Norm(path), k) ELSE {}) \ dirs }
        /\ steps' = Append(steps, Entry(at, "os.makedirs", <<path>>, ~ok))
        /\ IF ok THEN pc' = next /\ UNCHANGED <<raisedAt, exit>>
                 ELSE pc' = "idle" /\ raisedAt' = at /\ exit' = "traceback"
    /\ UNCHANGED <<script, runs, savedModel, tfjsOut, desc, out, variables,
                   weight_specs, command, sysStatus, convSaved, descAtStart>>

\* os.makedirs(path, exist_ok=True) at module level: returns when the
\* directory exists already; otherwise creates the missing ancestors and the
\* directory, or raises after creating some of the ancestors.  The raise is
\* caught nowhere.
makedirs(at, path, next) ==
    /\ pc = at
    /\ \E ok \in BOOLEAN :
        /\ (Norm(path) \in dirs => ok)
        /\ \E k \in 0..Len(Norm(path)) :
            /\ (ok <=> k = Len(Norm(path)))
            /\ dirs' = dirs \cup PrefixesUpTo(Norm(path), k)
            /\ madeBy' = madeBy \cup
                 { [dir |-> d, script |-> script, run |-> runs] :
                      d \in PrefixesUpTo(Norm(path), k) \ dirs }
        /\ steps' = Append(steps, Entry(at, "os.makedirs", <<path>>, ~ok))
        /\ IF ok THEN pc' = next /\ UNCHANGED <<raisedAt, exit>>
                 ELSE pc' = "idle" /\ raisedAt' = at /\ exit' = "traceback"
    /\ UNCHANGED <<script, runs, savedModel, tfjsOut, desc, out, variables,
                   weight_specs, command, sysStatus, convSaved, descAtStart>>

----------------------------------------------------------------------------
\* convert_yamnet.py: module-level statements, no exception handler.

\* An exception at module level: the interpreter prints a traceback and the
\* script ends; nothing after the raising statement runs.
Uncaught(at) == pc' = "idle" /\ raisedAt' = at /\ exit' = "traceback"

CY_MkBase == makedirs("cy8",  base_dir, "cy9")
CY_MkTf   == makedirs("cy9",  CY_TF,    "cy10")
CY_MkTfjs == makedirs("cy10", CY_TFJS,  "cy14")

\* lines 13-14: print, hub.load(url)
CY_HubLoad ==
    /\ pc = "cy14"
    /\ out' = Append(out, MsgDownloading)
    /\ \E ok \in BOOLEAN :
        /\ steps' = Append(steps, Entry("cy14", "hub.load", <<MODEL_URL>>, ~ok))
        /\ IF ok THEN pc' = "cy29" /\ UNCHANGED <<raisedAt, exit>>
                 ELSE Uncaught("cy14")
    /\ UNCHANGED <<script, runs, fsVars, variables, weight_specs, command,
                   sysStatus, convSaved, descAtStart>>

\* lines 17-29: class YAMNetWrapper with the [None] float32 input signature,
\* print, YAMNetWrapper(yamnet_model)
CY_Wrap ==
    /\ pc = "cy29"
    /\ out' = Append(out, MsgCreating)
    /\ \E ok \in BOOLEAN :
        /\ steps' = Append(steps, Entry("cy29", "YAMNetWrapper", <<>>, ~ok))
        /\ IF ok THEN pc' = "cy33" /\ UNCHANGED <<raisedAt, exit>>
                 ELSE Uncaught("cy29")
    /\ UNCHANGED <<script, runs, fsVars, variables, weight_specs, command,
                   sysStatus, convSaved, descAtStart>>

\* Variant of CY_Save: the save wrapped in try/except that prints and goes on.
CY_Save_Caught ==
    /\ pc = "cy33"
    /\ \E ok \in BOOLEAN :
        /\ steps' = Append(steps, Entry("cy33", "tf.saved_model.save", <<CY_TF>>, ~ok))
        /\ IF ok
             THEN /\ savedModel' = savedModel \cup {Norm(CY_TF)}
                  /\ dirs' = dirs \cup Prefixes(Norm(CY_TF))
                  /\ convSaved' = TRUE
                  /\ UNCHANGED raisedAt
             ELSE /\ savedModel' \in {savedModel, savedModel \ {Norm(CY_TF)}}
                  /\ UNCHANGED <<dirs, convSaved>>
                  /\ raisedAt' = "cy33"
    /\ out' = Append(out, MsgSaving)
    /\ pc' = "cy41"
    /\ UNCHANGED <<script, runs, madeBy, tfjsOut, desc, variables, weight_specs,
                   command, sysStatus, descAtStart, exit>>

\* lines 32-37: print, tf.saved_model.save(wrapped_model, base/yamnet_tf).
\* A save that returns leaves a loadable model; a save that raises leaves
\* none that was not there, and may have damaged the one that was.
CY_Save ==
    /\ pc = "cy33"
    /\ out' = Append(out, MsgSaving)
    /\ \E ok \in BOOLEAN :
        /\ steps' = Append(steps, Entry("cy33", "tf.saved_model.save", <<CY_TF>>, ~ok))
        /\ IF ok
             THEN /\ savedModel' = savedModel \cup {Norm(CY_TF)}
                  /\ dirs' = dirs \cup Prefixes(Norm(CY_TF))
                  /\ convSaved' = TRUE
                  /\ pc' = "cy41" /\ UNCHANGED <<raisedAt, exit>>
             ELSE /\ savedModel' \in {savedModel, savedModel \ {Norm(CY_TF)}}
                  /\ UNCHANGED <<dirs, convSaved>>
                  /\ Uncaught("cy33")
    /\ UNCHANGED <<script, runs, madeBy, tfjsOut, desc, variables, weight_specs,
                   command, sysStatus, descAtStart>>

\* lines 40-42: print, tf.saved_model.load(base/yamnet_tf), print signatures.
\* The load returns only when the directory holds a saved model.
CY_Reload ==
    /\ pc = "cy41"
    /\ \E ok \in BOOLEAN :
        /\ (ok => Norm(CY_TF) \in savedModel)
        /\ steps' = Append(steps, Entry("cy41", "tf.saved_model.load", <<CY_TF>>, ~ok))
        /\ IF ok THEN /\ out' = out \o <<MsgLoading, MsgSignatures>>
                      /\ pc' = "cy46" /\ UNCHANGED <<raisedAt, exit>>
                 ELSE /\ out' = Append(out, MsgLoading)
                      /\ Uncaught("cy41")
    /\ UNCHANGED <<script, runs, fsVars, variables, weight_specs, command,
                   sysStatus, convSaved, descAtStart>>

\* Variant of CY_Convert: the converter's failure is ignored.
CY_Convert_Swallow ==
    /\ pc = "cy46"
    /\ out' = Append(out, MsgConverting)
    /\ \E ok \in BOOLEAN :
        /\ (ok => Norm(CY_TF) \in savedModel)
        /\ steps' = Append(steps, Entry("cy46", "convert_tf_saved_model",
                                        <<CY_TF, CY_TFJS>>, ~ok))
        /\ tfjsOut' = IF ok THEN tfjsOut \cup {Norm(CY_TFJS)} ELSE tfjsOut
    /\ pc' = "cy51"
    /\ UNCHANGED <<script, runs, dirs, madeBy, savedModel, desc, variables,
                   weight_specs, command, sysStatus, convSaved, descAtStart,
                   raisedAt, exit>>

\* lines 45-49: print, tfjs.converters.convert_tf_saved_model(tf, tfjs).
\* The library converter raises on failure.
CY_Convert ==
    /\ pc = "cy46"
    /\ out' = Append(out, MsgConverting)
    /\ \E ok \in BOOLEAN :
        /\ (ok => Norm(CY_TF) \in savedModel)
        /\ steps' = Append(steps, Entry("cy46", "convert_tf_saved_model",
                                        <<CY_TF, CY_TFJS>>, ~ok))
        /\ IF ok THEN /\ tfjsOut' = tfjsOut \cup {Norm(CY_TFJS)}
                      /\ pc' = "cy51" /\ UNCHANGED <<raisedAt, exit>>
                 ELSE /\ UNCHANGED tfjsOut
                      /\ Uncaught("cy46")
    /\ UNCHANGED <<script, runs, dirs, madeBy, savedModel, desc, variables,
                   weight_specs, command, sysStatus, convSaved, descAtStart>>

\* line 51: print, end of script
CY_Done ==
    /\ pc = "cy51"
    /\ out' = Append(out, MsgComplete)
    /\ steps' = Append(steps, Entry("cy51", "print", <<>>, FALSE))
    /\ pc' = "idle" /\ exit' = "exit0"
    /\ UNCHANGED <<script, runs, fsVars, raisedAt, variables, weight_specs,
                   command, sysStatus, convSaved, descAtStart>>

----------------------------------------------------------------------------
\* extract_weights.py: extract_weight_specs(MODEL_URL, OUTPUT_JSON_PATH),
\* whose whole body is a try block with an except Exception handler.

\* Variant of EW_Load: the output file is opened before the model is loaded.
EW_Load_OpenFirst ==
    /\ pc = "ew17"
    /\ desc' = IF DirName(Norm(OUTPUT_JSON_PATH)) \in dirs
                 THEN [exists |-> TRUE, data |-> <<>>, valid |-> FALSE]
                 ELSE desc
    /\ \E ok \in BOOLEAN :
        /\ steps' = Append(steps, Entry("ew17", "hub.KerasLayer", <<MODEL_URL>>, ~ok))
        /\ IF ok THEN /\ \E vs \in VarSeqs : variables' = vs
                      /\ pc' = "ew21" /\ UNCHANGED raisedAt
                 ELSE /\ UNCHANGED variables
                      /\ pc' = "ew35" /\ raisedAt' = "ew17"
    /\ weight_specs' = <<>>
    /\ UNCHANGED <<script, runs, dirs, madeBy, savedModel, tfjsOut, out, exit,
                   command, sysStatus, convSaved, descAtStart>>

\* lines 17-19: hub.KerasLayer(model_url, trainable=False); weight_specs = []
EW_Load ==
    /\ pc = "ew17"
    /\ \E ok \in BOOLEAN :
        /\ steps' = Append(steps, Entry("ew17", "hub.KerasLayer", <<MODEL_URL>>, ~ok))
        /\ IF ok THEN /\ \E vs \in VarSeqs : variables' = vs
                      /\ pc' = "ew21" /\ UNCHANGED raisedAt
                 ELSE /\ UNCHANGED variables
                      /\ pc' = "ew35" /\ raisedAt' = "ew17"
    /\ weight_specs' = <<>>
    /\ UNCHANGED <<script, runs, fsVars, out, exit, command, sysStatus,
                   convSaved, descAtStart>>

\* Variant of EW_Append: weight_specs.insert(0, ...) instead of append.
EW_Append_Prepend ==
    /\ pc = "ew21"
    /\ Len(weight_specs) < Len(variables)
    /\ LET variable == variables[Len(weight_specs) + 1] IN
        /\ steps' = Append(steps, Entry("ew21", "variable", <<>>,
                                        AsListRaises(variable.shape)))
        /\ IF AsListRaises(variable.shape)
             THEN /\ UNCHANGED weight_specs
                  /\ pc' = "ew35" /\ raisedAt' = "ew21"
             ELSE /\ weight_specs' = <<SpecOf(variable)>> \o weight_specs
                  /\ UNCHANGED <<pc, raisedAt>>
    /\ UNCHANGED <<script, runs, fsVars, out, exit, variables, command,
                   sysStatus, convSaved, descAtStart>>

\* lines 21-26: one iteration of the for loop over yamnet_model.variables
EW_Append ==
    /\ pc = "ew21"
    /\ Len(weight_specs) < Len(variables)
    /\ LET variable == variables[Len(weight_specs) + 1] IN
        /\ steps' = Append(steps, Entry("ew21", "variable", <<>>,
                                        AsListRaises(variable.shape)))
        /\ IF AsListRaises(variable.shape)
             THEN /\ UNCHANGED weight_specs
                  /\ pc' = "ew35" /\ raisedAt' = "ew21"
             ELSE /\ weight_specs' = Append(weight_specs, SpecOf(variable))
                  /\ UNCHANGED <<pc, raisedAt>>
    /\ UNCHANGED <<script, runs, fsVars, out, exit, variables, command,
                   sysStatus, convSaved, descAtStart>>

\* Variant of EW_Open: os.makedirs(dirname, exist_ok=True) before the open.
EW_Open_MakeDirs ==
    /\ pc = "ew21"
    /\ Len(weight_specs) = Len(variables)
    /\ steps' = Append(steps, Entry("ew29", "open", <<OUTPUT_JSON_PATH>>, FALSE))
    /\ dirs' = dirs \cup Prefixes(DirName(Norm(OUTPUT_JSON_PATH)))
    /\ madeBy' = madeBy \cup
         { [dir |-> d, script |-> script, run |-> runs] :
              d \in Prefixes(DirName(Norm(OUTPUT_JSON_PATH))) \ dirs }
    /\ desc' = [exists |-> TRUE, data |-> <<>>, valid |-> FALSE]
    /\ pc' = "ew30"
    /\ UNCHANGED <<script, runs, savedModel, tfjsOut, out, exit, raisedAt,
                   variables, weight_specs, command, sysStatus, convSaved,
                   descAtStart>>

\* line 29: open(output_json_path, "w") once the loop is exhausted.  The
\* open creates or truncates the file and needs its directory to exist.
EW_Open ==
    /\ pc = "ew21"
    /\ Len(weight_specs) = Len(variables)
    /\ \E ok \in BOOLEAN :
        /\ (ok => DirName(Norm(OUTPUT_JSON_PATH)) \in dirs)
        /\ steps' = Append(steps, Entry("ew29", "open", <<OUTPUT_JSON_PATH>>, ~ok))
        /\ IF ok THEN /\ desc' = [exists |-> TRUE, data |-> <<>>, valid |-> FALSE]
                      /\ pc' = "ew30" /\ UNCHANGED raisedAt
                 ELSE /\ UNCHANGED desc
                      /\ pc' = "ew35" /\ raisedAt' = "ew29"
    /\ UNCHANGED <<script, runs, dirs, madeBy, savedModel, tfjsOut, out, exit,
                   variables, weight_specs, command, sysStatus, convSaved,
                   descAtStart>>

\* Variant of EW_Dump: a failed write is attempted again.
EW_Dump_Retry ==
    /\ pc = "ew30"
    /\ \E ok \in BOOLEAN :
        /\ steps' = Append(steps, Entry("ew30", "json.dump", <<OUTPUT_JSON_PATH>>, ~ok))
        /\ IF ok THEN /\ desc' = [exists |-> TRUE, data |-> weight_specs, valid |-> TRUE]
                      /\ pc' = "ew32"
                 ELSE /\ \E k \in 0..Len(weight_specs) :
                            desc' = [exists |-> TRUE,
                                     data   |-> SubSeq(weight_specs, 1, k),
                                     valid  |-> FALSE]
                      /\ pc' = "ew30"
    /\ UNCHANGED <<script, runs, dirs, madeBy, savedModel, tfjsOut, out, exit,
                   raisedAt, variables, weight_specs, command, sysStatus,
                   convSaved, descAtStart>>

\* line 30 and the end of the with block: json.dump(weight_specs, f) and
\* close.  The file holds the list as JSON text; data is the list of records
\* that reached the file and valid says whether the text is complete.
EW_Dump ==
    /\ pc = "ew30"
    /\ \E ok \in BOOLEAN :
        /\ steps' = Append(steps, Entry("ew30", "json.dump", <<OUTPUT_JSON_PATH>>, ~ok))
        /\ IF ok THEN /\ desc' = [exists |-> TRUE, data |-> weight_specs, valid |-> TRUE]
                      /\ pc' = "ew32" /\ UNCHANGED raisedAt
                 ELSE /\ \E k \in 0..Len(weight_specs) :
                            desc' = [exists |-> TRUE,
                                     data   |-> SubSeq(weight_specs, 1, k),
                                     valid  |-> FALSE]
                      /\ pc' = "ew35" /\ raisedAt' = "ew30"
    /\ UNCHANGED <<script, runs, dirs, madeBy, savedModel, tfjsOut, out, exit,
                   variables, weight_specs, command, sysStatus, convSaved,
                   descAtStart>>

\* line 32, then the function returns and the script ends
EW_Success ==
    /\ pc = "ew32"
    /\ out' = Append(out, MsgWeightsSaved)
    /\ steps' = Append(steps, Entry("ew32", "print", <<>>, FALSE))
    /\ pc' = "idle" /\ exit' = "exit0"
    /\ UNCHANGED <<script, runs, fsVars, raisedAt, variables, weight_specs,
                   command, sysStatus, convSaved, descAtStart>>

\* Variant of EW_Except: the handler re-raises, as reconvert_to_tfjs does.
EW_Except_Reraise ==
    /\ pc = "ew35"
    /\ out' = Append(out, MsgErrExtract)
    /\ steps' = Append(steps, Entry("ew35", "print", <<>>, FALSE))
    /\ pc' = "idle" /\ exit' = "traceback"
    /\ UNCHANGED <<script, runs, fsVars, raisedAt, variables, weight_specs,
                   command, sysStatus, convSaved, descAtStart>>

\* lines 34-35: the handler prints and falls through; the function returns
EW_Except ==
    /\ pc = "ew35"
    /\ out' = Append(out, MsgErrExtract)
    /\ steps' = Append(steps, Entry("ew35", "print", <<>>, FALSE))
    /\ pc' = "idle" /\ exit' = "exit0"
    /\ UNCHANGED <<script, runs, fsVars, raisedAt, variables, weight_specs,
                   command, sysStatus, convSaved, descAtStart>>

----------------------------------------------------------------------------
\* reconvert_to_tfjs.py

\* line 38, in __main__ and outside the try block
RC_MkOut == makedirs("rc38", TFJS_OUTPUT_PATH, "rc12")

\* Variant of RC_Load: the load's failure does not stop the conversion.
RC_Load_Continue ==
    /\ pc = "rc12"
    /\ \E ok \in BOOLEAN :
        /\ (ok => Norm(SAVED_MODEL_PATH) \in savedModel)
        /\ steps' = Append(steps, Entry("rc12", "tf.saved_model.load",
                                        <<SAVED_MODEL_PATH>>, ~ok))
        /\ raisedAt' = IF ok THEN raisedAt ELSE "rc12"
    /\ pc' = "rc15"
    /\ UNCHANGED <<script, runs, fsVars, out, exit, variables, weight_specs,
                   command, sysStatus, convSaved, descAtStart>>

\* line 12: tf.saved_model.load(saved_model_path)
RC_Load ==
    /\ pc = "rc12"
    /\ \E ok \in BOOLEAN :
        /\ (ok => Norm(SAVED_MODEL_PATH) \in savedModel)
        /\ steps' = Append(steps, Entry("rc12", "tf.saved_model.load",
                                        <<SAVED_MODEL_PATH>>, ~ok))
        /\ IF ok THEN pc' = "rc15" /\ UNCHANGED raisedAt
                 ELSE pc' = "rc32" /\ raisedAt' = "rc12"
    /\ UNCHANGED <<script, runs, fsVars, out, exit, variables, weight_specs,
                   command, sysStatus, convSaved, descAtStart>>

\* lines 15-26: build the command list and print it
RC_Command ==
    /\ pc = "rc15"
    /\ command' = [prog   |-> "tensorflowjs_converter",
                   flags  |-> <<"--input_format=tf_saved_model",
                                "--output_format=tfjs_graph_model",
                                "--signature_name=serving_default",
                                "--saved_model_tags=serve">>,
                   input  |-> SAVED_MODEL_PATH,
                   output |-> TFJS_OUTPUT_PATH]
    /\ out' = Append(out, MsgRunning)
    /\ steps' = Append(steps, Entry("rc26", "print", <<>>, FALSE))
    /\ pc' = "rc27"
    /\ UNCHANGED <<script, runs, fsVars, raisedAt, exit, variables, weight_specs,
                   sysStatus, convSaved, descAtStart>>

\* line 27: os.system(" ".join(command)).  os.system returns the exit status
\* of the shell and raises for no failure of the command; its value is
\* discarded.
RC_System ==
    /\ pc = "rc27"
    /\ \E st \in Statuses :
        /\ (st = 0 => Norm(command.input) \in savedModel)
        /\ sysStatus' = st
        /\ tfjsOut' = IF st = 0 THEN tfjsOut \cup {Norm(command.output)} ELSE tfjsOut
    /\ steps' = Append(steps, Entry("rc27", "os.system",
                                    <<command.input, command.output>>, FALSE))
    /\ pc' = "rc29"
    /\ UNCHANGED <<script, runs, dirs, madeBy, savedModel, desc, out, raisedAt,
                   exit, variables, weight_specs, command, convSaved, descAtStart>>

\* line 29, then the function returns and the script ends
RC_Success ==
    /\ pc = "rc29"
    /\ out' = Append(out, MsgReconverted)
    /\ steps' = Append(steps, Entry("rc29", "print", <<>>, FALSE))
    /\ pc' = "idle" /\ exit' = "exit0"
    /\ UNCHANGED <<script, runs, fsVars, raisedAt, variables, weight_specs,
                   command, sysStatus, convSaved, descAtStart>>

\* lines 31-33: the handler prints and re-raises; nothing catches it
RC_Except ==
    /\ pc = "rc32"
    /\ out' = Append(out, MsgErrReconvert)
    /\ steps' = Append(steps, Entry("rc32", "print", <<>>, FALSE))
    /\ pc' = "idle" /\ exit' = "traceback"
    /\ UNCHANGED <<script, runs, fsVars, raisedAt, variables, weight_specs,
                   command, sysStatus, convSaved, descAtStart>>

----------------------------------------------------------------------------
Next ==
    \/ RunConvertYamnet
    \/ RunExtractWeights
    \/ RunReconvert
    \/ CY_MkBase \/ CY_MkTf \/ CY_MkTfjs
    \/ CY_HubLoad \/ CY_Wrap \/ CY_Save \/ CY_Reload \/ CY_Convert \/ CY_Done
    \/ EW_Load \/ EW_Append \/ EW_Open \/ EW_Dump \/ EW_Success \/ EW_Except
    \/ RC_MkOut \/ RC_Load \/ RC_Command \/ RC_System \/ RC_Success \/ RC_Except

Spec == Init /\ [][Next]_vars
----------------------------------------------------------------------------
\* Properties.

Range(s)      == { s[i] : i \in 1..Len(s) }
StepsOf(op)   == { i \in 1..Len(steps) : steps[i].op = op }
Ended         == pc = "idle" /\ script # "none"
ErrMsgs       == {MsgErrExtract, MsgErrReconvert}

TypeOK ==
    /\ script \in {"none", "convert_yamnet", "extract_weights", "reconvert_to_tfjs"}
    /\ runs \in 0..MaxRuns
    /\ exit \in {"none", "running", "exit0", "traceback"}
    /\ sysStatus \in Statuses \cup {-1}
    /\ variables \in VarSeqs
    /\ Len(weight_specs) <= Len(variables)
    /\ (pc = "idle" <=> exit # "running")

C2_SubprocessErrorForwarded ==
    (script = "reconvert_to_tfjs" /\ pc = "idle" /\ sysStatus \notin {0, -1}) =>
        /\ exit = "traceback"
        /\ MsgReconverted \notin Range(out)

\* C3: the steps of a convert_yamnet.py run are a prefix of the fixed order
\* makedirs x3, hub.load, wrap, save, reload, convert, print; the converter
\* runs only after a save into <base>/yamnet_tf that returned, reads that
\* directory and writes <base>/yamnet_tfjs; the completion message is printed
\* only after the converter returned.
CYOrder ==
    << "os.makedirs", "os.makedirs", "os.makedirs", "hub.load", "YAMNetWrapper",
       "tf.saved_model.save", "tf.saved_model.load", "convert_tf_saved_model",
       "print" >>

C3_ConvertYamnetOrder ==
    script = "convert_yamnet" =>
        /\ Len(steps) <= Len(CYOrder)
        /\ \A i \in 1..Len(steps) : steps[i].op = CYOrder[i]
        /\ \A i \in 1..Len(steps) : i < Len(steps) => ~steps[i].raised
        /\ \A i \in StepsOf("convert_tf_saved_model") :
              /\ steps[i].args = << <<"yamnet_conversion", "yamnet_tf">>,
                                    <<"yamnet_conversion", "yamnet_tfjs">> >>
              /\ \E j \in StepsOf("tf.saved_model.save") :
                    /\ j < i /\ ~steps[j].raised
                    /\ steps[j].args = <<steps[i].args[1]>>
        /\ (MsgComplete \in Range(out)) =>
              /\ out[Len(out)] = MsgComplete
              /\ \E i \in StepsOf("convert_tf_saved_model") : ~steps[i].raised

C3_Witness ==
    script = "convert_yamnet" /\ MsgComplete \in Range(out)

\* C4: when extract_weight_specs has printed its success message, the
\* descriptor file holds one record {name, shape, dtype} per variable the
\* loader reported, in the loader's order, each taken from the variable at
\* the same position.
ExpectedRecord(v) ==
    [name  |-> v.name,
     shape |-> v.shape.dims,
     dtype |-> IF v.dtype = "DT_FLOAT" THEN "float32" ELSE "int32"]

C4_DescriptorMatchesVariables ==
    (script = "extract_weights" /\ MsgWeightsSaved \in Range(out)) =>
        /\ desc.exists /\ desc.valid
        /\ Len(desc.data) = Len(variables)
        /\ \A i \in 1..Len(variables) : desc.data[i] = ExpectedRecord(variables[i])

C4_Witness ==
    /\ script = "extract_weights" /\ MsgWeightsSaved \in Range(out)
    /\ Len(variables) >= 2 /\ variables[1] # variables[2]

\* C5: in reconvert_to_tfjs the converter command is executed only after
\* tf.saved_model.load(saved_model_path) returned, with that path as input
\* and the four fixed flags; when the load raises, the converter is never
\* invoked and the exception reaches the caller.
C5_ConverterAfterLoad ==
    script = "reconvert_to_tfjs" =>
        /\ \A i \in StepsOf("os.system") :
              /\ \E j \in StepsOf("tf.saved_model.load") :
                    /\ j < i /\ ~steps[j].raised
                    /\ steps[j].args = <<steps[i].args[1]>>
              /\ steps[i].args[1] = <<".", "yamnet_conversion", "yamnet_tf">>
              /\ command.prog = "tensorflowjs_converter"
              /\ command.input = steps[i].args[1]
              /\ command.flags = << "--input_format=tf_saved_model",
                                    "--output_format=tfjs_graph_model",
                                    "--signature_name=serving_default",
                                    "--saved_model_tags=serve" >>
        /\ raisedAt = "rc12" =>
              /\ StepsOf("os.system") = {}
              /\ (pc = "idle" => exit = "traceback")

C5_Witness ==
    script = "reconvert_to_tfjs" /\ StepsOf("os.system") # {} /\ pc = "idle"

\* C6: within one run no external operation is attempted twice, and after
\* the first step that raises nothing but the handler's print is executed.
External(e) == e.op \notin {"print", "variable", "YAMNetWrapper"}

C6_NoRetry ==
    \A i, j \in 1..Len(steps) :
        i < j =>
            /\ (External(steps[i]) /\ External(steps[j])) =>
                   <<steps[i].op, steps[i].args>> # <<steps[j].op, steps[j].args>>
            /\ (steps[i].op # "os.makedirs") =>
                   (steps[j].op = steps[i].op => steps[i].op \in {"print", "variable"})
            /\ steps[i].raised => steps[j].op = "print"

C6_Witness ==
    script = "extract_weights" /\ raisedAt = "ew30" /\ pc = "idle"

\* C7 as stated: every directory created by the scripts is one of <base>,
\* <base>/yamnet_tf, <base>/yamnet_tfjs, and directory setup does not raise
\* for a directory that exists.
FixedTree ==
    { <<"yamnet_conversion">>,
      <<"yamnet_conversion", "yamnet_tf">>,
      <<"yamnet_conversion", "yamnet_tfjs">> }

SetupIdempotent ==
    \A i \in StepsOf("os.makedirs") :
        steps[i].raised => Norm(steps[i].args[1]) \notin dirs

C7_OnlyFixedTree ==
    /\ \A m \in madeBy : m.dir \in FixedTree
    /\ SetupIdempotent

\* C7 amended: every directory created by the scripts is one of <base>,
\* <base>/yamnet_tf, <base>/yamnet_tfjs (these two by convert_yamnet.py only)
\* and <base>/yamnet_tfjs_reconverted (by reconvert_to_tfjs.py only); a
\* convert_yamnet.py run past its setup has the first three; directory setup
\* does not raise for a directory that exists.
C7_FixedTreeAndReconverted ==
    /\ \A m \in madeBy :
          /\ m.dir \in FixedTree \cup {<<"yamnet_conversion", "yamnet_tfjs_reconverted">>}
          /\ (m.dir \in FixedTree \ {<<"yamnet_conversion">>}) =>
                 m.script = "convert_yamnet"
          /\ (m.dir = <<"yamnet_conversion", "yamnet_tfjs_reconverted">>) =>
                 m.script = "reconvert_to_tfjs"
          /\ m.script # "extract_weights"
    /\ (script = "convert_yamnet" /\ Len(steps) >= 3 /\ ~steps[3].raised) =>
          FixedTree \subseteq dirs
    /\ SetupIdempotent

C7_Witness ==
    /\ script = "convert_yamnet" /\ pc = "cy14"
    /\ \A d \in FixedTree : \E m \in madeBy : m.dir = d /\ m.run < runs
    /\ <<"yamnet_conversion", "yamnet_tfjs_reconverted">> \in dirs

C9_ExtractAlwaysReturns ==
    script = "extract_weights" =>
        /\ exit # "traceback"
        /\ pc = "idle" =>
              /\ exit = "exit0"
              /\ Len(out) = 1
              /\ out[1] \in {MsgWeightsSaved, MsgErrExtract}
              /\ (out[1] = MsgWeightsSaved) <=>
                    /\ \E i \in StepsOf("hub.KerasLayer") : ~steps[i].raised
                    /\ Cardinality({ i \in StepsOf("variable") : ~steps[i].raised })
                          = Len(variables)
                    /\ \A i \in StepsOf("variable") : ~steps[i].raised
                    /\ \E i \in StepsOf("open") : ~steps[i].raised
                    /\ \E i \in StepsOf("json.dump") : ~steps[i].raised
                    /\ desc.valid
              /\ (out[1] = MsgErrExtract) <=> (\E i \in 1..Len(steps) : steps[i].raised)

C9_Witness ==
    script = "extract_weights" /\ pc = "idle" /\ raisedAt = "ew30" /\ exit = "exit0"

\* C10: extract_weight_specs opens the descriptor file only after the model
\* is loaded and every variable is enumerated; when the load or the
\* enumeration raises, the file is as the run found it.
C10_FileUntouchedBeforeOpen ==
    script = "extract_weights" =>
        /\ \A i \in StepsOf("open") :
              /\ \E j \in StepsOf("hub.KerasLayer") : j < i /\ ~steps[j].raised
              /\ Cardinality({ j \in StepsOf("variable") : j < i /\ ~steps[j].raised })
                    = Len(variables)
              /\ Len(weight_specs) = Len(variables)
        /\ (StepsOf("open") = {}) => desc = descAtStart
        /\ (raisedAt \in {"ew17", "ew21"}) =>
              /\ StepsOf("open") = {}
              /\ desc = descAtStart

C10_Witness ==
    /\ script = "extract_weights" /\ pc = "idle" /\ raisedAt = "ew21"
    /\ descAtStart.exists /\ descAtStart.valid /\ Len(descAtStart.data) > 0
====
